---- MODULE Spec2Model ----
(***************************************************************************)
(* A model of bot.py of telegram-mtgbot: the inline-query handler, the     *)
(* ranking of card names for a query (get_photos_from_gatherer with        *)
(* match_card, common_words and heapq.nlargest) and the building of the    *)
(* card corpus (update_set_info, update_card_info).                        *)
(*                                                                         *)
(* Python strings are sequences of one-character strings.  A next_offset   *)
(* is <<>> for Python's '' and <<n>> for the integer n.                    *)
(***************************************************************************)
EXTENDS Integers, Sequences, FiniteSets, TLC

VARIABLES set_data, card_data, processed, pc,
          msg, outcome, exc, response, ranked, served, kind

vars == <<set_data, card_data, processed, pc,
          msg, outcome, exc, response, ranked, served, kind>>

update_vars == <<set_data, card_data, processed, pc>>
query_vars == <<msg, outcome, exc, response, ranked, served, kind>>

(***************************************************************************)
(* Bounds and program constants                                            *)
(***************************************************************************)
\* bot.py:23
RESULTS_AT_ONCE == 8

\* largest corpus of the specification with empty (random sample) queries
MaxCorpus == 9

\* largest corpus of the specification with non-empty queries only
MaxSearchCorpus == 17

\* a client stops following next_offset beyond this offset
MaxOffset == 24

\* longest feed of card records update_card_info is given
MaxFeed == 4

(***************************************************************************)
(* Python string operations                                                *)
(***************************************************************************)
Digits == <<"0", "1", "2", "3", "4", "5", "6", "7", "8", "9">>

\* the value of a decimal digit character, -1 for any other character
DigitValue(c) ==
    IF \E d \in 1..10 : Digits[d] = c
    THEN (CHOOSE d \in 1..10 : Digits[d] = c) - 1
    ELSE -1

\* str.lower on one character
LowerChar(c) ==
    CASE c = "A" -> "a"
      [] c = "B" -> "b"
      [] c = "C" -> "c"
      [] OTHER -> c

\* str.lower
Lower(s) == [i \in 1..Len(s) |-> LowerChar(s[i])]

\* str.isalnum on one character
IsAlnum(c) == c \in {"a", "b", "c", "A", "B", "C"} \/ DigitValue(c) >= 0

\* str.isspace on one character
IsSpace(c) == c = " "

\* str.split() without arguments: the set of whitespace-delimited tokens
RECURSIVE SplitFrom(_, _, _)
SplitFrom(s, i, cur) ==
    IF i > Len(s)
    THEN (IF cur = <<>> THEN {} ELSE {cur})
    ELSE IF IsSpace(s[i])
         THEN (IF cur = <<>> THEN {} ELSE {cur}) \cup SplitFrom(s, i + 1, <<>>)
         ELSE SplitFrom(s, i + 1, Append(cur, s[i]))

Split(s) == SplitFrom(s, 1, <<>>)

\* str.find: the 0-based index of the first occurrence of sub in s, or -1
Find(s, sub) ==
    LET hits == {p \in 0..(Len(s) - Len(sub)) :
                    SubSeq(s, p + 1, p + Len(sub)) = sub}
    IN  IF hits = {} THEN -1
        ELSE CHOOSE p \in hits : \A r \in hits : p <= r

\* Python's xs[start:] for any integer start
PySliceFrom(xs, start) ==
    LET from == IF start >= 0 THEN start
                ELSE IF Len(xs) + start > 0 THEN Len(xs) + start ELSE 0
    IN  SubSeq(xs, from + 1, Len(xs))

\* Python's xs[:n] for n >= 0
PyTake(xs, n) == SubSeq(xs, 1, IF n < Len(xs) THEN n ELSE Len(xs))

\* s without its leading and trailing whitespace (int() strips it)
RECURSIVE Strip(_)
Strip(s) ==
    IF s = <<>> THEN s
    ELSE IF IsSpace(s[1]) THEN Strip(Tail(s))
    ELSE IF IsSpace(s[Len(s)]) THEN Strip(SubSeq(s, 1, Len(s) - 1))
    ELSE s

RECURSIVE DigitsValue(_, _)
DigitsValue(s, acc) ==
    IF s = <<>> THEN acc
    ELSE DigitsValue(Tail(s), 10 * acc + DigitValue(s[1]))

\* int(s) of a str: [ok, val]; ok = FALSE stands for the ValueError int raises
PyInt(s) ==
    LET t == Strip(s)
        signed == t # <<>> /\ t[1] \in {"-", "+"}
        body == IF signed THEN Tail(t) ELSE t
        valid == body # <<>> /\ \A i \in 1..Len(body) : DigitValue(body[i]) >= 0
    IN  IF ~valid THEN [ok |-> FALSE, val |-> 0]
        ELSE [ok |-> TRUE,
              val |-> IF signed /\ t[1] = "-" THEN 0 - DigitsValue(body, 0)
                      ELSE DigitsValue(body, 0)]

\* str(n) of a non-negative integer
RECURSIVE PyStrNat(_)
PyStrNat(n) ==
    IF n < 10 THEN <<Digits[n + 1]>>
    ELSE Append(PyStrNat(n \div 10), Digits[(n % 10) + 1])

\* str(n) of an int
PyStr(n) == IF n < 0 THEN <<"-">> \o PyStrNat(0 - n) ELSE PyStrNat(n)

(***************************************************************************)
(* The corpus: card records and the names the models draw them from        *)
(***************************************************************************)
\* card.image_url of a card that has no image (Python's None)
None == "<None>"

\* names of cards; Init draws a corpus as a run of consecutive names
CardNames ==
    << <<"a", "b">>,            <<"A", "b">>,            <<"a", " ", "b">>,
       <<"b", " ", "a">>,       <<"a", "b", " ", "c">>,  <<"c", " ", "a", "b">>,
       <<"a", "-", "b">>,       <<"b", "a">>,            <<"a", "B">>,
       <<"a", "b", "c">>,       <<"c", "a", "b">>,       <<"a", "c", "b">>,
       <<"a">>,                 <<"A">>,                 <<"c", "a">>,
       <<"a", " ", "c">>,       <<"b", "a", "b">>,       <<"A", "B">>,
       <<"c">>,                 <<"b", " ", "c">>,       <<"c", "b">> >>

\* the card record of the k-th name (mtgsdk cards.Card: name, id, image_url, set)
CardOf(k) == [name |-> CardNames[k], id |-> k, image_url |-> "url", set |-> "s1"]

\* the query strings clients send, besides the empty one
Queries == { <<"a">>, <<"A", "b">>, <<"b", " ", "a">> }

\* the offset strings a first request may carry
OffsetInputs ==
    { <<>>, <<"3">>, <<" ", "1", "6">>, <<"-", "8">>, <<"x">>, <<"8", "x">> }

(***************************************************************************)
(* match.so: has_match and match                                           *)
(***************************************************************************)
\* the number of haystack characters skipped by the greedy left-to-right walk
\* that matches every needle character as soon as it is found; -1 when the
\* needle is no subsequence of the haystack
RECURSIVE GreedyWalk(_, _, _, _, _)
GreedyWalk(needle, haystack, i, j, skipped) ==
    IF i > Len(needle) THEN skipped
    ELSE IF j > Len(haystack) THEN -1
    ELSE IF haystack[j] = needle[i]
         THEN GreedyWalk(needle, haystack, i + 1, j + 1, skipped)
         ELSE GreedyWalk(needle, haystack, i, j + 1, skipped + 1)

\* True if needle has a match in haystack
has_match(needle, haystack) == GreedyWalk(needle, haystack, 1, 1, 0) >= 0

\* the match score for needle in haystack: dense matches score higher
match(needle, haystack) ==
    IF haystack = <<>> THEN 0
    ELSE IF ~has_match(needle, haystack) THEN 0 - Len(haystack)
    ELSE Len(needle) - GreedyWalk(needle, haystack, 1, 1, 0)

(***************************************************************************)
(* common_words and match_card                                             *)
(***************************************************************************)
\* ''.join(e for e in s if e.isalnum())
AlnumOnly(s) == SelectSeq(s, IsAlnum)

common_words(a, b) ==
    LET a_set == {AlnumOnly(s) : s \in Split(a)}
        b_set == {AlnumOnly(s) : s \in Split(b)}
    IN  a_set \cap b_set

\* 1 / (full_match + 1) is kept exact as FullMatchScale \div (full_match + 1),
\* and the -1 of a failed find as -FullMatchScale; names have at most 6
\* characters, so every denominator divides the scale
FullMatchScale == 60

match_card(query, card) ==
    LET q == Lower(query)
        name == Lower(card.name)
        full_word_score == Cardinality(common_words(q, name))
        found == Find(name, q)
        full_match == IF found >= 0 THEN FullMatchScale \div (found + 1)
                      ELSE found * FullMatchScale
    IN  <<full_match, full_word_score, match(q, name)>>

\* Python's a < b on two score tuples
TupleLess(a, b) ==
    \E i \in 1..Len(a) :
        /\ a[i] < b[i]
        /\ \A j \in 1..(i - 1) : a[j] = b[j]

(***************************************************************************)
(* heapq.nlargest(n, iterable, key)                                        *)
(***************************************************************************)
\* the (key(elem), order, elem) tuples nlargest works on, one per element
Decorate(query, xs) ==
    [i \in 1..Len(xs) |->
        [key |-> match_card(query, xs[i]), order |-> 1 - i, elem |-> xs[i]]]

\* Python's a < b on two decorated tuples (orders are distinct, so the
\* elements themselves are never compared)
DecLess(a, b) ==
    \/ TupleLess(a.key, b.key)
    \/ a.key = b.key /\ a.order < b.order

\* result.sort(reverse=True) of a set of decorated tuples
RECURSIVE SortReverse(_)
SortReverse(S) ==
    IF S = {} THEN <<>>
    ELSE LET top == CHOOSE x \in S : \A y \in S : ~DecLess(x, y)
         IN  <<top>> \o SortReverse(S \ {top})

\* sorted(iterable, key=key, reverse=True): a stable sort, so elements with
\* equal keys keep their original order
RECURSIVE SortedByKeyReverse(_)
SortedByKeyReverse(ds) ==
    IF ds = <<>> THEN <<>>
    ELSE LET rest == SortedByKeyReverse(SubSeq(ds, 1, Len(ds) - 1))
             last == ds[Len(ds)]
             \* last goes after every element whose key is not smaller
             keep == Cardinality({i \in 1..Len(rest) : ~TupleLess(rest[i].key, last.key)})
         IN  SubSeq(rest, 1, keep) \o <<last>> \o SubSeq(rest, keep + 1, Len(rest))

\* the loop of nlargest over the elements after the first n: an element whose
\* key is greater than the heap's least key replaces the heap's least tuple
RECURSIVE HeapLoop(_, _, _, _)
HeapLoop(heap, ds, i, order) ==
    IF i > Len(ds) THEN heap
    ELSE LET least == CHOOSE x \in heap : \A y \in heap : ~DecLess(y, x)
         IN  IF TupleLess(least.key, ds[i].key)
             THEN HeapLoop((heap \ {least}) \cup
                               {[key |-> ds[i].key, order |-> order, elem |-> ds[i].elem]},
                           ds, i + 1, order - 1)
             ELSE HeapLoop(heap, ds, i + 1, order)

\* max(it, key=key): the first element with the greatest key
FirstMax(ds) ==
    ds[CHOOSE i \in 1..Len(ds) :
          /\ \A j \in 1..Len(ds) : ~TupleLess(ds[i].key, ds[j].key)
          /\ \A j \in 1..(i - 1) : TupleLess(ds[j].key, ds[i].key)]

\* nlargest with a tie order reversed: the heap's tuples sorted by key and
\* then by descending order, so that later elements come first among equals
NLargestUnstable(n, ds) ==
    LET lessRev(a, b) == \/ TupleLess(a.key, b.key)
                         \/ a.key = b.key /\ a.order > b.order
        ranks == [i \in 1..Len(ds) |->
                     1 + Cardinality({j \in 1..Len(ds) : lessRev(ds[i], ds[j])})]
        all == [r \in 1..Len(ds) |-> ds[CHOOSE i \in 1..Len(ds) : ranks[i] = r]]
    IN  IF n <= 0 THEN <<>> ELSE PyTake(all, n)

\* heapq.nlargest on the decorated elements ds
NLargest(n, ds) ==
    IF n = 1
    THEN (IF ds = <<>> THEN <<>> ELSE <<FirstMax(ds)>>)
    ELSE IF n >= Len(ds)
    THEN PyTake(SortedByKeyReverse(ds), n)
    ELSE IF n <= 0
    THEN <<>>
    ELSE SortReverse(HeapLoop({ds[i] : i \in 1..n}, ds, n + 1, 0 - n))

(***************************************************************************)
(* get_photos_from_gatherer                                                *)
(***************************************************************************)
\* sample with its last element drawn with replacement
sample_with_replacement(population, k) ==
    IF k > Len(population)
    THEN {[exc |-> "ValueError", value |-> <<>>]}
    ELSE {[exc |-> "", value |-> [i \in 1..k |-> population[IF i = k THEN j ELSE i]]] :
             j \in 1..Len(population)}

\* random.sample(population, k): a set of [exc, value]; it raises ValueError
\* when k > len(population).  Every choice of k distinct elements is kept, in
\* the order of the population and in the reverse order (two of the k! orders
\* the library can return)
sample(population, k) ==
    IF k > Len(population)
    THEN {[exc |-> "ValueError", value |-> <<>>]}
    ELSE LET n == Len(population)
             picks == {S \in SUBSET (1..n) : Cardinality(S) = k}
             \* the i-th smallest index of S
             nth(S, i) == CHOOSE x \in S : Cardinality({y \in S : y < x}) = i - 1
         IN  {[exc |-> "", value |-> [i \in 1..k |-> population[nth(S, i)]]] : S \in picks}
             \cup
             {[exc |-> "", value |-> [i \in 1..k |-> population[nth(S, k + 1 - i)]]] : S \in picks}

\* filtered_cards without the has_match test
filtered_cards_unfiltered(query_string) == card_data

\* [card for card in card_data.values() if has_match(query.lower(), card.name.lower())]
filtered_cards(query_string) ==
    SelectSeq(card_data,
              LAMBDA card : has_match(Lower(query_string), Lower(card.name)))

\* matches without the ranking: the filtered cards in corpus order
matches_unranked(query_string, offset) ==
    PyTake(PySliceFrom(filtered_cards(query_string), offset), RESULTS_AT_ONCE)

\* matches with the slice starting one element late
matches_shifted(query_string, offset) ==
    LET top == NLargest(offset + RESULTS_AT_ONCE,
                        Decorate(query_string, filtered_cards(query_string)))
    IN  [i \in 1..Len(PySliceFrom(top, offset + 1)) |-> PySliceFrom(top, offset + 1)[i].elem]

\* matches with ties between equal scores in reverse corpus order
matches_unstable(query_string, offset) ==
    LET top == NLargestUnstable(offset + RESULTS_AT_ONCE,
                                Decorate(query_string, filtered_cards(query_string)))
    IN  [i \in 1..Len(PySliceFrom(top, offset)) |-> PySliceFrom(top, offset)[i].elem]

\* nlargest(offset + RESULTS_AT_ONCE, filtered_cards, key=partial(match_card, query))[offset:]
matches(query_string, offset) ==
    LET top == NLargest(offset + RESULTS_AT_ONCE,
                        Decorate(query_string, filtered_cards(query_string)))
        page == PySliceFrom(top, offset)
    IN  [i \in 1..Len(page) |-> page[i].elem]

\* next_offset with >= for >
has_next_offset_inclusive(query_string, offset) ==
    Len(filtered_cards(query_string)) >= offset + RESULTS_AT_ONCE

\* next_offset = len(filtered_cards) > (offset + RESULTS_AT_ONCE)
has_next_offset(query_string, offset) ==
    Len(filtered_cards(query_string)) > offset + RESULTS_AT_ONCE

\* the InlineQueryResultPhoto list built from the matches
Results(cards) ==
    [i \in 1..Len(cards) |->
        [id |-> cards[i].id, photo_url |-> cards[i].image_url,
         thumb_url |-> cards[i].image_url, caption |-> cards[i].name]]

\* the value of a call that raised exception e
Raised(e) == [exc |-> e, results |-> <<>>, next_offset |-> <<>>, ranked |-> 0]

\* the random branch of get_photos_from_gatherer
random_answers(offset) ==
    {IF s.exc # "" THEN Raised(s.exc)
     ELSE [exc |-> "", results |-> Results(s.value),
           next_offset |-> <<offset + RESULTS_AT_ONCE>>, ranked |-> 0] :
        s \in sample(card_data, RESULTS_AT_ONCE)}

\* the ranking branch of get_photos_from_gatherer; ranked counts its one pass
\* of filtering and ranking over the corpus
ranked_answers(query_string, offset) ==
    {[exc |-> "", results |-> Results(matches(query_string, offset)),
      next_offset |-> IF has_next_offset(query_string, offset)
                      THEN <<offset + RESULTS_AT_ONCE>> ELSE <<>>,
      ranked |-> 1]}

\* get_photos_from_gatherer with the test of the query inverted
get_photos_from_gatherer_inverted(query_string, offset) ==
    IF query_string # <<>>
    THEN random_answers(offset)
    ELSE ranked_answers(query_string, offset)

\* the set of values (or the exception) a call can end with
get_photos_from_gatherer(query_string, offset) ==
    IF query_string = <<>>
    THEN random_answers(offset)
    ELSE ranked_answers(query_string, offset)

(***************************************************************************)
(* InlineHandler.on_inline_query                                           *)
(***************************************************************************)
\* the response of a request that was not answered
NoResponse == [results |-> <<>>, next_offset |-> <<>>]

\* the try block of compute_answer:
\* get_photos_from_gatherer(query_string, int(offset) if offset else 0)
try_get_photos(query_string, offset) ==
    IF offset = <<>>
    THEN get_photos_from_gatherer(query_string, 0)
    ELSE IF ~PyInt(offset).ok
         THEN {Raised("ValueError")}
         ELSE get_photos_from_gatherer(query_string, PyInt(offset).val)

\* compute_answer: except TypeError returns None, any other exception leaves
\* compute_answer, and otherwise the response is returned
compute_answer(query_string, offset) ==
    {IF r.exc = "TypeError"
     THEN [outcome |-> "none", exc |-> "", response |-> NoResponse, ranked |-> r.ranked]
     ELSE IF r.exc # ""
     THEN [outcome |-> "raised", exc |-> r.exc, response |-> NoResponse, ranked |-> r.ranked]
     ELSE [outcome |-> "answered", exc |-> "",
           response |-> [results |-> r.results, next_offset |-> r.next_offset],
           ranked |-> r.ranked] :
        r \in try_get_photos(query_string, offset)}

\* the handler on a message with this query and offset
on_inline_query(query_string, offset) ==
    \E a \in compute_answer(query_string, offset) :
        /\ msg' = [query |-> query_string, offset |-> offset]
        /\ outcome' = a.outcome
        /\ exc' = a.exc
        /\ response' = a.response
        /\ ranked' = a.ranked

(***************************************************************************)
(* Clients.  served lists the pages of the current non-empty query that    *)
(* were requested in order from offset 0, each with its offset.            *)
(***************************************************************************)
\* the integer a request's offset string stands for
OffsetOf(offset) == IF offset = <<>> THEN 0 ELSE PyInt(offset).val

\* a client asks for random cards: the empty query
RandomCards ==
    \E offset \in OffsetInputs :
        /\ on_inline_query(<<>>, offset)
        /\ served' = <<>>
        /\ kind' = "random"
        /\ UNCHANGED update_vars

\* a client types a query
Search ==
    \E query_string \in Queries, offset \in OffsetInputs :
        /\ on_inline_query(query_string, offset)
        /\ served' = IF outcome' = "answered" /\ OffsetOf(offset) = 0
                     THEN <<[offset |-> 0, response |-> response']>>
                     ELSE <<>>
        /\ kind' = "search"
        /\ UNCHANGED update_vars

\* the client holds a next_offset to scroll to
CanFollow ==
    /\ outcome = "answered"
    /\ response.next_offset # <<>>
    /\ response.next_offset[1] <= MaxOffset

\* the client scrolls: it sends the query again with the next_offset it got
Follow ==
    /\ CanFollow
    /\ on_inline_query(msg.query, PyStr(response.next_offset[1]))
    /\ served' = IF served # <<>> /\ outcome' = "answered"
                 THEN Append(served, [offset |-> response.next_offset[1],
                                      response |-> response'])
                 ELSE <<>>
    /\ kind' = "follow"
    /\ UNCHANGED update_vars

\* the client asks again for a page it was served
Repeat ==
    \E i \in 1..Len(served) :
        /\ on_inline_query(msg.query, PyStr(served[i].offset))
        /\ served' = SubSeq(served, 1, i)
        /\ kind' = "repeat"
        /\ UNCHANGED update_vars

\* a corpus of n cards: the names from the s-th on, forwards or backwards
Corpus(s, n, d) ==
    [i \in 1..n |-> CardOf(((s + Len(CardNames) + d * (i - 1)) % Len(CardNames)) + 1)]

\* where in CardNames the corpora of the two serving specifications start
Starts == {0, 11}
SearchStarts == {0, 3, 6, 9, 12, 15, 18}

\* the state once update_data has run and the bot serves: a corpus is loaded
QueryInit(starts, max) ==
    /\ \E s \in starts, n \in 0..max, d \in {1, -1} :
           card_data = Corpus(s, n, d)
    /\ set_data = [c \in {"s1"} |-> 1]
    /\ processed = <<>>
    /\ pc = "serving"
    /\ msg = [query |-> <<>>, offset |-> <<>>]
    /\ outcome = "idle"
    /\ exc = ""
    /\ response = NoResponse
    /\ ranked = 0
    /\ served = <<>>
    /\ kind = "idle"

Init == QueryInit(Starts, MaxCorpus)

Next == RandomCards \/ Search \/ Follow \/ Repeat

Spec == Init /\ [][Next]_vars

SearchInit == QueryInit(SearchStarts, MaxSearchCorpus)

SearchNext == Search \/ Follow \/ Repeat

SpecSearch == SearchInit /\ [][SearchNext]_vars

\* a client that can scroll does not stop for ever: weak fairness of Follow.
\* A Follow step always changes msg, so Follow is enabled exactly when
\* CanFollow holds, and WF_vars(Follow) is written out with CanFollow
SpecSearchFair ==
    SpecSearch /\ ([]<>(~CanFollow) \/ []<><<Follow>>_vars)

(***************************************************************************)
(* update_data: update_set_info, then update_card_info                     *)
(***************************************************************************)
SetCodes == {"s1", "s2"}

\* release dates, as day numbers
ReleaseDates == 1..2

\* the card records cards.search() can yield: two names, each printed in
\* every set, with and without an image
FeedCards ==
    {[name |-> CardNames[k], id |-> 10 * k + (IF c = "s1" THEN 1 ELSE 2) + (IF u = None THEN 100 ELSE 0),
      image_url |-> u, set |-> c] :
        k \in 1..2, c \in SetCodes, u \in {"url", None}}

\* name in card_data
InDict(d, name) == \E i \in 1..Len(d) : d[i].name = name

\* card_data[name]
DictGet(d, name) == d[CHOOSE i \in 1..Len(d) : d[i].name = name]

\* card_data[name] = card: a present key keeps its place, a new one goes last
DictSet(d, name, card) ==
    IF InDict(d, name)
    THEN [i \in 1..Len(d) |-> IF d[i].name = name THEN card ELSE d[i]]
    ELSE Append(d, card)

\* the loop body with < for <=: a card of an equally recent set replaces
update_card_ties_replace(d, sets, card) ==
    IF InDict(d, card.name) /\ sets[card.set] < sets[DictGet(d, card.name).set]
    THEN d
    ELSE IF card.image_url = None
    THEN d
    ELSE DictSet(d, card.name, card)

\* the body of update_card_info's loop for one card: the new card_data
update_card(d, sets, card) ==
    IF InDict(d, card.name) /\ sets[card.set] <= sets[DictGet(d, card.name).set]
    THEN d
    ELSE IF card.image_url = None
    THEN d
    ELSE DictSet(d, card.name, card)

\* update_set_info: every set of sets.search() is stored with its release date
update_set_info ==
    /\ pc = "sets"
    /\ \E dates \in [SetCodes -> ReleaseDates] : set_data' = dates
    /\ pc' = "cards"
    /\ UNCHANGED <<card_data, processed>>
    /\ UNCHANGED query_vars

\* one turn of update_card_info's loop, on the next card of cards.search()
update_card_info_step ==
    /\ pc = "cards"
    /\ Len(processed) < MaxFeed
    /\ \E card \in FeedCards :
           /\ card_data' = update_card(card_data, set_data, card)
           /\ processed' = Append(processed, card)
    /\ UNCHANGED <<set_data, pc>>
    /\ UNCHANGED query_vars

\* cards.search() is exhausted: update_card_info returns
update_card_info_done ==
    /\ pc = "cards"
    /\ pc' = "done"
    /\ UNCHANGED <<set_data, card_data, processed>>
    /\ UNCHANGED query_vars

\* the module's globals before update_data: set_data = {}, card_data = {}
UpdateInit ==
    /\ set_data = <<>>
    /\ card_data = <<>>
    /\ processed = <<>>
    /\ pc = "sets"
    /\ msg = [query |-> <<>>, offset |-> <<>>]
    /\ outcome = "idle"
    /\ exc = ""
    /\ response = NoResponse
    /\ ranked = 0
    /\ served = <<>>
    /\ kind = "idle"

UpdateNext == update_set_info \/ update_card_info_step \/ update_card_info_done

SpecUpdate == UpdateInit /\ [][UpdateNext]_vars

(***************************************************************************)
(* Notions the properties are stated in                                    *)
(***************************************************************************)
\* a request has been handled
Handled == kind # "idle"

\* the offset string of the last request parses as an integer (or is empty)
OffsetParsed == msg.offset = <<>> \/ PyInt(msg.offset).ok

\* the integer offset get_photos_from_gatherer was called with
Offset == OffsetOf(msg.offset)

\* the last request had a non-empty query and was answered with a page
PageAnswered == Handled /\ msg.query # <<>> /\ outcome = "answered"

\* the score tuple of a result for the last request's query
Score(r) == match_card(msg.query, [name |-> r.caption])

\* score tuple a is not below b: containment first, then shared words, then
\* the fuzzy score
NotBelow(a, b) ==
    \/ a[1] > b[1]
    \/ a[1] = b[1] /\ a[2] > b[2]
    \/ a[1] = b[1] /\ a[2] = b[2] /\ a[3] >= b[3]

\* the places in the corpus of the cards that match the last request's query
Matching ==
    {i \in 1..Len(card_data) :
        has_match(Lower(msg.query), Lower(card_data[i].name))}

\* the full ranked list of the matching candidates, as results: a matching
\* card follows the cards that score higher and the earlier cards that score
\* the same
RankedAll ==
    LET score == [i \in 1..Len(card_data) |-> match_card(msg.query, card_data[i])]
        rank == [i \in Matching |->
                    1 + Cardinality({j \in Matching :
                            \/ ~NotBelow(score[i], score[j])
                            \/ score[i] = score[j] /\ j < i})]
        place == [r \in 1..Cardinality(Matching) |-> CHOOSE i \in Matching : rank[i] = r]
    IN  [r \in 1..Cardinality(Matching) |-> Results(<<card_data[place[r]]>>)[1]]

\* the pages of served, concatenated
RECURSIVE ConcatPages(_)
ConcatPages(pages) ==
    IF pages = <<>> THEN <<>>
    ELSE pages[1].response.results \o ConcatPages(Tail(pages))

\* the place in the corpus of the card a result shows
CorpusIndex(r) == CHOOSE i \in 1..Len(card_data) : card_data[i].id = r.id

\* results of equal score are in the order of the corpus
TieOrder(rs) ==
    \A i, j \in 1..Len(rs) :
        (i < j /\ Score(rs[i]) = Score(rs[j])) => CorpusIndex(rs[i]) < CorpusIndex(rs[j])

(***************************************************************************)
(* C1: an inline request whose offset is a non-empty string that does not  *)
(* parse as an integer is answered with an empty result list and an empty  *)
(* next_offset, and no exception leaves compute_answer.                    *)
(***************************************************************************)
C1_MalformedOffsetAnswered ==
    (Handled /\ msg.offset # <<>> /\ ~PyInt(msg.offset).ok)
        => /\ outcome = "answered"
           /\ response = [results |-> <<>>, next_offset |-> <<>>]

(***************************************************************************)
(* C2: for a non-empty query and an offset >= 0 the page has at most       *)
(* RESULTS_AT_ONCE results, in non-increasing order of the score tuple     *)
(* (containment, shared words, fuzzy score; the first criterion decides).  *)
(***************************************************************************)
C2_PageBoundedAndSorted ==
    (PageAnswered /\ Offset >= 0)
        => /\ Len(response.results) <= RESULTS_AT_ONCE
           /\ \A i \in 1..(Len(response.results) - 1) :
                  NotBelow(Score(response.results[i]), Score(response.results[i + 1]))

\* a full second page on which the containment criterion and the word count
\* both decide an order
C2_Witness ==
    /\ PageAnswered /\ Offset > 0
    /\ Len(response.results) = RESULTS_AT_ONCE
    /\ \E i \in 1..(Len(response.results) - 1) :
           Score(response.results[i])[1] > Score(response.results[i + 1])[1]
    /\ \E i \in 1..(Len(response.results) - 1) :
           /\ Score(response.results[i])[1] = Score(response.results[i + 1])[1]
           /\ Score(response.results[i])[2] > Score(response.results[i + 1])[2]

(***************************************************************************)
(* C3: every record of a page for a non-empty query passes has_match of    *)
(* the lower-cased query against its lower-cased name.                     *)
(***************************************************************************)
C3_ResultsMatch ==
    PageAnswered
        => \A i \in 1..Len(response.results) :
               has_match(Lower(msg.query), Lower(response.results[i].caption))

\* a non-empty page from a corpus that holds a card failing the test
C3_Witness ==
    /\ PageAnswered
    /\ response.results # <<>>
    /\ Matching # 1..Len(card_data)

WithImage(name) ==
    {i \in 1..Len(processed) :
        processed[i].name = name /\ processed[i].image_url # None}

\* the first of the records of this name with an image whose set is newest
NewestWithImage(name) ==
    processed[CHOOSE i \in WithImage(name) :
        \A j \in WithImage(name) :
            \/ set_data[processed[j].set] < set_data[processed[i].set]
            \/ set_data[processed[j].set] = set_data[processed[i].set] /\ i <= j]

\* C5: one record per name, none without an image, and for each name the
\* first of the newest records with an image
C5_CorpusKeepsNewestWithImage ==
    pc \in {"cards", "done"}
        => /\ \A i, j \in 1..Len(card_data) :
                  card_data[i].name = card_data[j].name => i = j
           /\ \A i \in 1..Len(card_data) : card_data[i].image_url # None
           /\ \A i \in 1..Len(card_data) : WithImage(card_data[i].name) # {}
           /\ \A k \in 1..Len(processed) :
                  WithImage(processed[k].name) # {}
                      => /\ InDict(card_data, processed[k].name)
                         /\ DictGet(card_data, processed[k].name)
                                = NewestWithImage(processed[k].name)

\* the feed held, for one name, two records with an image from different
\* sets of the same date, then one without an image, and the first is stored
C5_Witness ==
    /\ pc = "done"
    /\ Len(processed) >= 3
    /\ \E name \in {processed[k].name : k \in 1..Len(processed)} :
           /\ \E i, j \in WithImage(name) :
                  /\ i < j
                  /\ processed[i].set # processed[j].set
                  /\ set_data[processed[i].set] = set_data[processed[j].set]
                  /\ DictGet(card_data, name) = processed[i]
           /\ \E k \in 1..Len(processed) :
                  processed[k].name = name /\ processed[k].image_url = None

(***************************************************************************)
(* C6: for the empty query against a corpus of at least RESULTS_AT_ONCE    *)
(* records the page holds exactly RESULTS_AT_ONCE records, pairwise        *)
(* distinct and all of the corpus, whatever the offset.                    *)
(***************************************************************************)
C6_RandomPage ==
    (Handled /\ msg.query = <<>> /\ OffsetParsed /\ Len(card_data) >= RESULTS_AT_ONCE)
        => /\ outcome = "answered"
           /\ Len(response.results) = RESULTS_AT_ONCE
           /\ \A i, j \in 1..Len(response.results) :
                  response.results[i] = response.results[j] => i = j
           /\ \A i \in 1..Len(response.results) :
                  \E k \in 1..Len(card_data) :
                      response.results[i] = Results(<<card_data[k]>>)[1]

\* a random page at an offset other than 0 that is not the corpus's first
\* RESULTS_AT_ONCE cards
C6_Witness ==
    /\ Handled /\ msg.query = <<>> /\ outcome = "answered"
    /\ Offset > 0
    /\ Len(card_data) > RESULTS_AT_ONCE
    /\ response.results # Results(SubSeq(card_data, 1, RESULTS_AT_ONCE))

(***************************************************************************)
(* C7: for every query, empty or not, and every corpus, empty or smaller   *)
(* than RESULTS_AT_ONCE included, get_photos_from_gatherer completes       *)
(* without raising and returns a result page.                              *)
(***************************************************************************)
C7_AlwaysAnswered ==
    (Handled /\ OffsetParsed) => outcome = "answered"

C9_DeterministicStableOrder ==
    /\ PageAnswered => TieOrder(response.results)
    /\ served # <<>> => TieOrder(ConcatPages(served))
    /\ kind = "repeat" => response = served[Len(served)].response

\* two cards of equal score on either side of a page boundary, and the first
\* page requested again
C9_Witness ==
    /\ kind = "repeat"
    /\ Len(served) = 1
    /\ response.next_offset # <<>>
    /\ Len(RankedAll) > RESULTS_AT_ONCE
    /\ Score(RankedAll[RESULTS_AT_ONCE]) = Score(RankedAll[RESULTS_AT_ONCE + 1])
    /\ response.results[RESULTS_AT_ONCE] = RankedAll[RESULTS_AT_ONCE]

(***************************************************************************)
(* C10: for a non-empty query and an offset >= 0, next_offset is empty     *)
(* exactly when no matching candidate remains after the page and is        *)
(* offset + RESULTS_AT_ONCE otherwise; a client that starts at offset 0    *)
(* and keeps requesting next_offset sees increasing offsets, never an      *)
(* empty page after a non-empty next_offset, and in the end the empty      *)
(* next_offset.                                                            *)
(***************************************************************************)
\* no matching candidate is ranked after the page of the last request
NoneRemain == Cardinality(Matching) <= Offset + Len(response.results)

\* C10, the part that holds in every state: the value of next_offset, and the
\* offsets and pages a scrolling client has seen
C10_NextOffsetState ==
    /\ (PageAnswered /\ Offset >= 0)
           => /\ response.next_offset = <<>> <=> NoneRemain
              /\ response.next_offset # <<>>
                     => response.next_offset = <<Offset + RESULTS_AT_ONCE>>
    /\ (PageAnswered /\ kind = "follow") => response.results # <<>>
    /\ \A i \in 1..(Len(served) - 1) :
           /\ served[i].offset < served[i + 1].offset
           /\ served[i].response.next_offset = <<served[i + 1].offset>>
           /\ served[i + 1].response.results # <<>>

\* C10: the above in every state, and a client that from some point on only
\* scrolls ends holding the empty next_offset
C10_NextOffset ==
    /\ []C10_NextOffsetState
    /\ <>[][Follow]_vars => <>[](response.next_offset = <<>>)

\* a client has followed next_offset twice from offset 0 and holds the empty
\* next_offset
C10_Witness ==
    /\ kind = "follow"
    /\ Len(served) = 3
    /\ served[2].response.next_offset = <<2 * RESULTS_AT_ONCE>>
    /\ response.next_offset = <<>>
    /\ response.results # <<>>

====
